---- MODULE Spec2Model ----
(***************************************************************************)
(* Model of the account ledger of accounts_db.py.  The database is the     *)
(* pair of tables accounts / transactions.  Every function of the module   *)
(* opens its own sqlite3 connection (get_db), so every function call is a  *)
(* separate database session: a SELECT reads the committed tables, the     *)
(* first UPDATE/INSERT of a session takes the single database write lock   *)
(* (implicit BEGIN of the sqlite3 module), the writes of a session become  *)
(* visible at its conn.commit(), which also releases the lock.             *)
(* A caller (a tool invocation of banking_server.py) is a process; each    *)
(* process runs one function at a time, one SQL statement per step.        *)
(* Balances and amounts (REAL in the schema) are integers here.            *)
(*                                                                         *)
(* now is the wall clock datetime.now() reads; created_at is not kept.     *)
(*                                                                         *)
(* pc, op, args, leg, new_balance, stamp (the timestamp taken for the row  *)
(* being inserted) are the position and locals of a call,                  *)
(* ret is the value it returned.  pre is a history variable: the tables as *)
(* they were when the call started, kept for the properties that compare   *)
(* "before" and "after" (only the specifications that say so record it).   *)
(***************************************************************************)
EXTENDS Integers, Sequences, FiniteSets, TLC

\* ---------------------------------------------------------------- bounds
MaxAmount == 1
MaxSeqAmount == 2
MaxTx == 3
MaxLiveTx == 5
MaxClock == 3
DayLen == 2

Procs == {"p1", "p2"}
AccIds == {"acc1", "acc2"}
\* the readings of the clock (seconds) and the day a reading falls on
Times == 0..MaxClock
Date(ts) == ts \div DayLen
Dates == {<<>>} \cup {<<d>> : d \in 0..Date(MaxClock)}
\* amounts of concurrent callers (strictly positive) and of a single caller (any)
PosAmounts == 1..MaxAmount
Deposits == 0..MaxAmount
SeqAmounts == (0 - 1)..MaxSeqAmount
SeqDeposits == 0..MaxSeqAmount

VARIABLES accounts, transactions, lock, pc, op, args, leg, new_balance, stamp,
          ret, pre, now

vars == <<accounts, transactions, lock, pc, op, args, leg, new_balance, stamp,
          ret, pre, now>>

\* ------------------------------------------------------------- the tables
NoLock == "none"
\* an argument that is not given; None and "" are both false in an if
None == "None"
Truthy(x) == x \notin {None, ""}

\* the names and types update_account_details is called with
Names == {None, "", "bob"}
Types == {None, "checking"}

\* the arguments of a call; a date that is given is <<d>>, one that is not
\* given (None or "") is <<>>
Args(acc, to, amt) ==
  [account_id |-> acc, to_acc |-> to, amount |-> amt,
   holder_name |-> None, account_type |-> None,
   start_date |-> <<>>, end_date |-> <<>>]
NoArgs == Args("none", "none", 0)
NoPre == [accounts |-> <<>>, transactions |-> <<>>]

\* AUTOINCREMENT: one more than the largest id ever used (rows are never deleted)
NextId ==
  IF transactions = <<>> THEN 1 ELSE transactions[Len(transactions)].id + 1

Row(acc, type, amt, descr, bal, ts) ==
  [id |-> NextId, account_id |-> acc, type |-> type, amount |-> amt,
   description |-> descr, balance_after |-> bal, timestamp |-> ts]

Exists(acc) == acc \in DOMAIN accounts

\* the account a running deposit/withdraw works on: its own argument, or the
\* argument transfer passed to it
\* slip: the deposit leg of a transfer is given the source account
CurAcc_source(p) == args[p].account_id

CurAcc(p) ==
  IF op[p] = "transfer" /\ leg[p] = "deposit" THEN args[p].to_acc
  ELSE args[p].account_id

CurDescr(p) ==
  IF op[p] = "transfer"
  THEN IF leg[p] = "deposit" THEN <<"Transfer from", args[p].account_id>>
       ELSE <<"Transfer to", args[p].to_acc>>
  ELSE IF op[p] = "deposit" THEN <<"Deposit">> ELSE <<"Withdrawal">>

Init ==
  /\ accounts = <<>>
  /\ transactions = <<>>
  /\ lock = NoLock
  /\ pc = [p \in Procs |-> "idle"]
  /\ op = [p \in Procs |-> "none"]
  /\ args = [p \in Procs |-> NoArgs]
  /\ leg = [p \in Procs |-> "none"]
  /\ new_balance = [p \in Procs |-> 0]
  /\ ret = [p \in Procs |-> "none"]
  /\ pre = [p \in Procs |-> NoPre]
  /\ stamp = [p \in Procs |-> 0]
  /\ now = 0

\* ------------------------------------------------------- calling a function
\* the rows a running function may still append to transactions
Pending(q) ==
  IF pc[q] \in {"idle", "done", "tr_rollback", "tr_commit"} THEN 0
  ELSE IF op[q] = "transfer" THEN (IF leg[q] = "withdraw" THEN 2 ELSE 1)
  ELSE IF op[q] \in {"deposit", "withdraw"} THEN 1
  ELSE IF op[q] = "create_account" /\ args[q].amount > 0 THEN 1
  ELSE 0

RECURSIVE SumPending(_)
SumPending(S) ==
  IF S = {} THEN 0
  ELSE LET q == CHOOSE x \in S : TRUE IN Pending(q) + SumPending(S \ {q})

Appends(name, a) ==
  IF name = "transfer" THEN 2
  ELSE IF name \in {"deposit", "withdraw"} THEN 1
  ELSE IF name = "create_account" /\ a.amount > 0 THEN 1
  ELSE 0

\* a call, allowed while the ledger, with what the running calls may still
\* append, stays within cap rows
CallCap(p, name, first, a, snap, cap) ==
  /\ pc[p] = "idle"
  /\ Len(transactions) + SumPending(Procs) + Appends(name, a) <= cap
  /\ op' = [op EXCEPT ![p] = name]
  /\ args' = [args EXCEPT ![p] = a]
  /\ pc' = [pc EXCEPT ![p] = first]
  /\ leg' = [leg EXCEPT ![p] = IF name = "transfer" THEN "withdraw" ELSE "none"]
  /\ pre' = [pre EXCEPT ![p] = IF snap THEN [accounts |-> accounts, transactions |-> transactions]
                                ELSE NoPre]
  /\ UNCHANGED <<accounts, transactions, lock, new_balance, ret, now, stamp>>

Call(p, name, first, a, snap) == CallCap(p, name, first, a, snap, MaxTx)

\* the uuid4 prefix of create_account is some identifier
CallCreate(p, Deps, snap) ==
  \E id \in AccIds, d \in Deps :
    Call(p, "create_account", "cr_insert_acc",
         [Args(id, "none", d) EXCEPT !.holder_name = "alice",
                                     !.account_type = "savings"], snap)

CallClose(p, snap) ==
  \E id \in AccIds :
    Call(p, "close_account", "cl_select",
         Args(id, "none", 0), snap)

CallGetBalance(p, snap) ==
  \E id \in AccIds :
    Call(p, "get_balance", "gb_select",
         Args(id, "none", 0), snap)

CallDeposit(p, Amts, snap) ==
  \E id \in AccIds, amt \in Amts :
    Call(p, "deposit", "dep_select",
         Args(id, "none", amt), snap)

CallWithdraw(p, Amts, snap) ==
  \E id \in AccIds, amt \in Amts :
    Call(p, "withdraw", "wd_select",
         Args(id, "none", amt), snap)

CallTransfer(p, Amts, snap) ==
  \E f \in AccIds, t \in AccIds, amt \in Amts :
    Call(p, "transfer", "tr_begin",
         Args(f, t, amt), snap)

CallUpdate(p, snap) ==
  \E id \in AccIds, h \in Names, t \in Types :
    Call(p, "update_account_details", "up_build",
         [Args(id, "none", 0) EXCEPT !.holder_name = h, !.account_type = t], snap)

CallGetHistory(p, snap) ==
  \E id \in AccIds, s \in Dates, e \in Dates :
    Call(p, "get_history", "gh_select",
         [Args(id, "none", 0) EXCEPT !.start_date = s, !.end_date = e], snap)

\* two transfers at a time need room for four rows
CallTransferLive(p, Amts) ==
  \E f \in AccIds, t \in AccIds, amt \in Amts :
    CallCap(p, "transfer", "tr_begin",
            Args(f, t, amt), FALSE, MaxLiveTx)

\* a function returns to the tool layer: the process holds the value
Finish(p, val) ==
  /\ pc' = [pc EXCEPT ![p] = "done"]
  /\ ret' = [ret EXCEPT ![p] = val]
  /\ leg' = [leg EXCEPT ![p] = "none"]

\* slip: transfer tries again when a leg fails
FnReturn_retry(p, val) ==
  IF op[p] = "transfer"
  THEN /\ ret' = ret
       /\ IF val = "False"
          THEN /\ pc' = [pc EXCEPT ![p] = "wd_select"]
               /\ leg' = [leg EXCEPT ![p] = "withdraw"]
          ELSE IF leg[p] = "withdraw"
               THEN /\ pc' = [pc EXCEPT ![p] = "dep_select"]
                    /\ leg' = [leg EXCEPT ![p] = "deposit"]
               ELSE pc' = [pc EXCEPT ![p] = "tr_commit"] /\ leg' = leg
  ELSE Finish(p, val)

\* slip: transfer commits after the withdraw leg, the deposit leg is not called
FnReturn_nodeposit(p, val) ==
  IF op[p] = "transfer"
  THEN /\ ret' = ret
       /\ leg' = leg
       /\ pc' = [pc EXCEPT ![p] = IF val = "False" THEN "tr_rollback" ELSE "tr_commit"]
  ELSE Finish(p, val)

\* deposit / withdraw return val, to the tool layer or to transfer
FnReturn(p, val) ==
  IF op[p] = "transfer"
  THEN /\ ret' = ret
       /\ IF val = "False"
          THEN pc' = [pc EXCEPT ![p] = "tr_rollback"] /\ leg' = leg
          ELSE IF leg[p] = "withdraw"
               THEN /\ pc' = [pc EXCEPT ![p] = "dep_select"]
                    /\ leg' = [leg EXCEPT ![p] = "deposit"]
               ELSE pc' = [pc EXCEPT ![p] = "tr_commit"] /\ leg' = leg
  ELSE Finish(p, val)

\* the tool layer formats the answer; the process is free again
Return(p) ==
  /\ pc[p] = "done"
  /\ pc' = [pc EXCEPT ![p] = "idle"]
  /\ op' = [op EXCEPT ![p] = "none"]
  /\ args' = [args EXCEPT ![p] = NoArgs]
  /\ leg' = [leg EXCEPT ![p] = "none"]
  /\ new_balance' = [new_balance EXCEPT ![p] = 0]
  /\ ret' = [ret EXCEPT ![p] = "none"]
  /\ pre' = [pre EXCEPT ![p] = NoPre]
  /\ UNCHANGED <<accounts, transactions, lock, now, stamp>>

\* ---------------------------------------------------------- create_account
create_account_insert(p) ==
  /\ pc[p] = "cr_insert_acc"
  /\ lock = NoLock
  /\ IF Exists(args[p].account_id)
     THEN \* PRIMARY KEY violation: the exception leaves the function
          /\ Finish(p, "Raise")
          /\ lock' = lock
     ELSE /\ lock' = p
          /\ pc' = [pc EXCEPT ![p] =
                      IF args[p].amount > 0 THEN "cr_insert_tx" ELSE "cr_commit"]
          /\ UNCHANGED <<ret, leg>>
  /\ UNCHANGED <<accounts, transactions, op, args, new_balance, pre, now, stamp>>

create_account_insert_tx(p) ==
  /\ pc[p] = "cr_insert_tx"
  /\ pc' = [pc EXCEPT ![p] = "cr_commit"]
  /\ stamp' = [stamp EXCEPT ![p] = now]
  /\ UNCHANGED <<accounts, transactions, lock, op, args, leg, new_balance, ret, pre, now>>

create_account_commit(p) ==
  /\ pc[p] = "cr_commit"
  /\ LET id == args[p].account_id
         d == args[p].amount
     IN /\ accounts' = [a \in DOMAIN accounts \cup {id} |->
                          IF a = id
                          THEN [balance |-> d, status |-> "active",
                                holder_name |-> args[p].holder_name,
                                account_type |-> args[p].account_type]
                          ELSE accounts[a]]
        /\ transactions' =
             IF d > 0
             THEN Append(transactions, Row(id, "credit", d, <<"Initial deposit">>, d, stamp[p]))
             ELSE transactions
        /\ Finish(p, id)
  /\ lock' = NoLock
  /\ stamp' = [stamp EXCEPT ![p] = 0]
  /\ UNCHANGED <<op, args, new_balance, pre, now>>

\* ----------------------------------------------------------- close_account
\* slip: the balance test of line 71 is left out
close_account_select_nobalance(p) ==
  /\ pc[p] = "cl_select"
  /\ IF ~Exists(args[p].account_id)
     THEN Finish(p, "False")
     ELSE pc' = [pc EXCEPT ![p] = "cl_update"] /\ UNCHANGED <<ret, leg>>
  /\ UNCHANGED <<accounts, transactions, lock, op, args, new_balance, pre, now, stamp>>

close_account_select(p) ==
  /\ pc[p] = "cl_select"
  /\ LET id == args[p].account_id
     IN IF ~Exists(id) \/ accounts[id].balance # 0
        THEN Finish(p, "False")
        ELSE pc' = [pc EXCEPT ![p] = "cl_update"] /\ UNCHANGED <<ret, leg>>
  /\ UNCHANGED <<accounts, transactions, lock, op, args, new_balance, pre, now, stamp>>

close_account_update(p) ==
  /\ pc[p] = "cl_update"
  /\ lock = NoLock
  /\ lock' = p
  /\ pc' = [pc EXCEPT ![p] = "cl_commit"]
  /\ UNCHANGED <<accounts, transactions, op, args, leg, new_balance, ret, pre, now, stamp>>

close_account_commit(p) ==
  /\ pc[p] = "cl_commit"
  /\ accounts' = [accounts EXCEPT ![args[p].account_id].status = "closed"]
  /\ lock' = NoLock
  /\ Finish(p, "True")
  /\ UNCHANGED <<transactions, op, args, new_balance, pre, now, stamp>>

\* ------------------------------------------------------------- get_balance
\* slip: an unknown account is answered with a sentinel instead of 0
get_balance_sentinel(p) ==
  /\ pc[p] = "gb_select"
  /\ Finish(p, IF Exists(args[p].account_id)
               THEN accounts[args[p].account_id].balance ELSE 0 - 1)
  /\ UNCHANGED <<accounts, transactions, lock, op, args, new_balance, pre, now, stamp>>

get_balance(p) ==
  /\ pc[p] = "gb_select"
  /\ Finish(p, IF Exists(args[p].account_id)
               THEN accounts[args[p].account_id].balance ELSE 0)
  /\ UNCHANGED <<accounts, transactions, lock, op, args, new_balance, pre, now, stamp>>

\* ----------------------------------------------------------------- deposit
\* slip: the status test of line 90 is left out
deposit_select_anystatus(p) ==
  /\ pc[p] = "dep_select"
  /\ LET id == CurAcc(p)
     IN IF Exists(id)
        THEN /\ new_balance' = [new_balance EXCEPT ![p] =
                                  accounts[id].balance + args[p].amount]
             /\ pc' = [pc EXCEPT ![p] = "dep_update"]
             /\ UNCHANGED <<ret, leg>>
        ELSE FnReturn(p, "False") /\ new_balance' = new_balance
  /\ UNCHANGED <<accounts, transactions, lock, op, args, pre, now, stamp>>

deposit_select(p) ==
  /\ pc[p] = "dep_select"
  /\ LET id == CurAcc(p)
     IN IF Exists(id) /\ accounts[id].status = "active"
        THEN /\ new_balance' = [new_balance EXCEPT ![p] =
                                  accounts[id].balance + args[p].amount]
             /\ pc' = [pc EXCEPT ![p] = "dep_update"]
             /\ UNCHANGED <<ret, leg>>
        ELSE FnReturn(p, "False") /\ new_balance' = new_balance
  /\ UNCHANGED <<accounts, transactions, lock, op, args, pre, now, stamp>>

deposit_update(p) ==
  /\ pc[p] = "dep_update"
  /\ lock = NoLock
  /\ lock' = p
  /\ pc' = [pc EXCEPT ![p] = "dep_insert"]
  /\ UNCHANGED <<accounts, transactions, op, args, leg, new_balance, ret, pre, now, stamp>>

deposit_insert(p) ==
  /\ pc[p] = "dep_insert"
  /\ pc' = [pc EXCEPT ![p] = "dep_commit"]
  /\ stamp' = [stamp EXCEPT ![p] = now]
  /\ UNCHANGED <<accounts, transactions, lock, op, args, leg, new_balance, ret, pre, now>>

\* slip: the row records the balance read, not new_balance
deposit_commit_stale(p) ==
  /\ pc[p] = "dep_commit"
  /\ accounts' = [accounts EXCEPT ![CurAcc(p)].balance = new_balance[p]]
  /\ transactions' = Append(transactions,
        Row(CurAcc(p), "credit", args[p].amount, CurDescr(p),
            new_balance[p] - args[p].amount, stamp[p]))
  /\ lock' = NoLock
  /\ FnReturn(p, "True")
  /\ new_balance' = [new_balance EXCEPT ![p] = 0]
  /\ stamp' = [stamp EXCEPT ![p] = 0]
  /\ UNCHANGED <<op, args, pre, now>>

deposit_commit(p) ==
  /\ pc[p] = "dep_commit"
  /\ accounts' = [accounts EXCEPT ![CurAcc(p)].balance = new_balance[p]]
  /\ transactions' = Append(transactions,
        Row(CurAcc(p), "credit", args[p].amount, CurDescr(p), new_balance[p], stamp[p]))
  /\ lock' = NoLock
  /\ FnReturn(p, "True")
  /\ new_balance' = [new_balance EXCEPT ![p] = 0]
  /\ stamp' = [stamp EXCEPT ![p] = 0]
  /\ UNCHANGED <<op, args, pre, now>>

\* ---------------------------------------------------------------- withdraw
\* slip: the balance >= amount test of line 118 is left out
withdraw_select_unchecked(p) ==
  /\ pc[p] = "wd_select"
  /\ LET id == CurAcc(p)
     IN IF Exists(id) /\ accounts[id].status = "active"
        THEN /\ new_balance' = [new_balance EXCEPT ![p] =
                                  accounts[id].balance - args[p].amount]
             /\ pc' = [pc EXCEPT ![p] = "wd_update"]
             /\ UNCHANGED <<ret, leg>>
        ELSE FnReturn(p, "False") /\ new_balance' = new_balance
  /\ UNCHANGED <<accounts, transactions, lock, op, args, pre, now, stamp>>

withdraw_select(p) ==
  /\ pc[p] = "wd_select"
  /\ LET id == CurAcc(p)
     IN IF /\ Exists(id)
           /\ accounts[id].status = "active"
           /\ accounts[id].balance >= args[p].amount
        THEN /\ new_balance' = [new_balance EXCEPT ![p] =
                                  accounts[id].balance - args[p].amount]
             /\ pc' = [pc EXCEPT ![p] = "wd_update"]
             /\ UNCHANGED <<ret, leg>>
        ELSE FnReturn(p, "False") /\ new_balance' = new_balance
  /\ UNCHANGED <<accounts, transactions, lock, op, args, pre, now, stamp>>

withdraw_update(p) ==
  /\ pc[p] = "wd_update"
  /\ lock = NoLock
  /\ lock' = p
  /\ pc' = [pc EXCEPT ![p] = "wd_insert"]
  /\ UNCHANGED <<accounts, transactions, op, args, leg, new_balance, ret, pre, now, stamp>>

withdraw_insert(p) ==
  /\ pc[p] = "wd_insert"
  /\ pc' = [pc EXCEPT ![p] = "wd_commit"]
  /\ stamp' = [stamp EXCEPT ![p] = now]
  /\ UNCHANGED <<accounts, transactions, lock, op, args, leg, new_balance, ret, pre, now>>

\* slip: the row of a withdrawal is typed "credit", as in deposit
withdraw_commit_credit(p) ==
  /\ pc[p] = "wd_commit"
  /\ accounts' = [accounts EXCEPT ![CurAcc(p)].balance = new_balance[p]]
  /\ transactions' = Append(transactions,
        Row(CurAcc(p), "credit", args[p].amount, CurDescr(p), new_balance[p], stamp[p]))
  /\ lock' = NoLock
  /\ FnReturn(p, "True")
  /\ new_balance' = [new_balance EXCEPT ![p] = 0]
  /\ stamp' = [stamp EXCEPT ![p] = 0]
  /\ UNCHANGED <<op, args, pre, now>>

withdraw_commit(p) ==
  /\ pc[p] = "wd_commit"
  /\ accounts' = [accounts EXCEPT ![CurAcc(p)].balance = new_balance[p]]
  /\ transactions' = Append(transactions,
        Row(CurAcc(p), "debit", args[p].amount, CurDescr(p), new_balance[p], stamp[p]))
  /\ lock' = NoLock
  /\ FnReturn(p, "True")
  /\ new_balance' = [new_balance EXCEPT ![p] = 0]
  /\ stamp' = [stamp EXCEPT ![p] = 0]
  /\ UNCHANGED <<op, args, pre, now>>

\* ---------------------------------------------------------------- transfer
\* BEGIN TRANSACTION on transfer's own connection: a deferred transaction, it
\* takes no lock and reads nothing; withdraw is called next
transfer_begin(p) ==
  /\ pc[p] = "tr_begin"
  /\ pc' = [pc EXCEPT ![p] = "wd_select"]
  /\ UNCHANGED <<accounts, transactions, lock, op, args, leg, new_balance, ret, pre, now, stamp>>

\* conn.rollback() on transfer's own connection, which wrote nothing
transfer_rollback(p) ==
  /\ pc[p] = "tr_rollback"
  /\ Finish(p, "False")
  /\ UNCHANGED <<accounts, transactions, lock, op, args, new_balance, pre, now, stamp>>

\* conn.commit() on transfer's own connection, which wrote nothing
transfer_commit(p) ==
  /\ pc[p] = "tr_commit"
  /\ Finish(p, "True")
  /\ UNCHANGED <<accounts, transactions, lock, op, args, new_balance, pre, now, stamp>>

\* ------------------------------------------------------------- get_history
\* WHERE account_id = ?, and the date range when both dates are truthy
Where(txs, acc, s, e) ==
  SelectSeq(txs, LAMBDA r :
    /\ r.account_id = acc
    /\ (s # <<>> /\ e # <<>>) =>
          (s[1] <= Date(r.timestamp) /\ Date(r.timestamp) <= e[1]))

\* slip: ORDER BY is left out, the rows come in rowid order
OrderByTimestamp_rowid(rows) == rows

\* ORDER BY timestamp DESC: a row comes after the rows with a later timestamp
\* (and, here, after the earlier rows with the same timestamp)
OrderByTimestamp(rows) ==
  LET Pos(i) == 1 + Cardinality({j \in DOMAIN rows :
                     \/ rows[j].timestamp > rows[i].timestamp
                     \/ rows[j].timestamp = rows[i].timestamp /\ j < i})
  IN [k \in DOMAIN rows |-> rows[CHOOSE i \in DOMAIN rows : Pos(i) = k]]

\* the columns of the SELECT list
Dict(r) ==
  [timestamp |-> r.timestamp, type |-> r.type, amount |-> r.amount,
   description |-> r.description, balance_after |-> r.balance_after]

get_history(p) ==
  /\ pc[p] = "gh_select"
  /\ LET rows == OrderByTimestamp(Where(transactions, args[p].account_id,
                                        args[p].start_date, args[p].end_date))
     IN Finish(p, [k \in DOMAIN rows |-> Dict(rows[k])])
  /\ UNCHANGED <<accounts, transactions, lock, op, args, new_balance, pre, now, stamp>>

\* datetime.now() is the local wall clock: it moves on, and it can be set back
Tick ==
  /\ \E t \in Times : t # now /\ now' = t
  /\ UNCHANGED <<accounts, transactions, lock, pc, op, args, leg, new_balance,
                 stamp, ret, pre>>

\* --------------------------------------------------- update_account_details
\* the SET list holds the arguments that are truthy; none: return True
update_account_details_build(p) ==
  /\ pc[p] = "up_build"
  /\ IF ~Truthy(args[p].holder_name) /\ ~Truthy(args[p].account_type)
     THEN Finish(p, "True")
     ELSE pc' = [pc EXCEPT ![p] = "up_update"] /\ UNCHANGED <<ret, leg>>
  /\ UNCHANGED <<accounts, transactions, lock, op, args, new_balance, pre, now, stamp>>

update_account_details_update(p) ==
  /\ pc[p] = "up_update"
  /\ lock = NoLock
  /\ lock' = p
  /\ pc' = [pc EXCEPT ![p] = "up_commit"]
  /\ UNCHANGED <<accounts, transactions, op, args, leg, new_balance, ret, pre, now, stamp>>

\* slip: both columns are in the SET list whatever the arguments are
update_account_details_commit_both(p) ==
  /\ pc[p] = "up_commit"
  /\ LET id == args[p].account_id
     IN /\ accounts' =
             IF Exists(id)
             THEN [accounts EXCEPT ![id].holder_name = args[p].holder_name,
                                   ![id].account_type = args[p].account_type]
             ELSE accounts
        /\ Finish(p, IF Exists(id) THEN "True" ELSE "False")
  /\ lock' = NoLock
  /\ UNCHANGED <<transactions, op, args, new_balance, pre, now, stamp>>

\* WHERE account_id = ? with no test of status; rowcount is the rows matched
update_account_details_commit(p) ==
  /\ pc[p] = "up_commit"
  /\ LET id == args[p].account_id
     IN /\ accounts' =
             IF Exists(id)
             THEN [accounts EXCEPT
                     ![id].holder_name =
                        IF Truthy(args[p].holder_name) THEN args[p].holder_name ELSE @,
                     ![id].account_type =
                        IF Truthy(args[p].account_type) THEN args[p].account_type ELSE @]
             ELSE accounts
        /\ Finish(p, IF Exists(id) THEN "True" ELSE "False")
  /\ lock' = NoLock
  /\ UNCHANGED <<transactions, op, args, new_balance, pre, now, stamp>>

\* ------------------------------------------------------- database is locked
\* the first write of a session waits for the write lock; when another
\* session keeps it for the connection's timeout, sqlite3 raises
\* OperationalError.  transfer catches it, every other function lets it out.
WaitsForLock(p) ==
  pc[p] \in {"cr_insert_acc", "cl_update", "dep_update", "wd_update", "up_update"}

Busy(p) ==
  /\ WaitsForLock(p)
  /\ lock # NoLock
  /\ lock # p
  /\ Finish(p, IF op[p] = "transfer" THEN "False" ELSE "Raise")
  /\ new_balance' = [new_balance EXCEPT ![p] = 0]
  /\ UNCHANGED <<accounts, transactions, lock, op, args, pre, now, stamp>>

\* ---------------------------------------------------------- specifications
CreateSteps(p) ==
  \/ create_account_insert(p) \/ create_account_insert_tx(p) \/ create_account_commit(p)

CloseSteps(p) ==
  \/ close_account_select(p) \/ close_account_update(p) \/ close_account_commit(p)

DepositSteps(p) ==
  \/ deposit_select(p) \/ deposit_update(p) \/ deposit_insert(p) \/ deposit_commit(p)

WithdrawSteps(p) ==
  \/ withdraw_select(p) \/ withdraw_update(p) \/ withdraw_insert(p) \/ withdraw_commit(p)

TransferSteps(p) ==
  \/ transfer_begin(p) \/ transfer_rollback(p) \/ transfer_commit(p)

UpdateSteps(p) ==
  \/ update_account_details_build(p) \/ update_account_details_update(p)
  \/ update_account_details_commit(p)

\* concurrent callers, every amount strictly positive
Next ==
  \E p \in Procs :
    \/ CallCreate(p, Deposits, FALSE) \/ CreateSteps(p)
    \/ CallClose(p, FALSE) \/ CloseSteps(p)
    \/ CallDeposit(p, PosAmounts, FALSE) \/ DepositSteps(p)
    \/ CallWithdraw(p, PosAmounts, FALSE) \/ WithdrawSteps(p)
    \/ CallTransfer(p, PosAmounts, FALSE) \/ TransferSteps(p)
    \/ Busy(p) \/ Return(p)
Spec == Init /\ [][Next]_vars

\* concurrent deposits and withdrawals, every amount strictly positive; each
\* call remembers the tables it started from
NextRace ==
  \E p \in Procs :
    \/ CallCreate(p, Deposits, TRUE) \/ CreateSteps(p)
    \/ CallDeposit(p, PosAmounts, TRUE) \/ DepositSteps(p)
    \/ CallWithdraw(p, PosAmounts, TRUE) \/ WithdrawSteps(p)
    \/ Busy(p) \/ Return(p)
SpecRace == Init /\ [][NextRace]_vars

\* one caller, any amount: no other operation runs during a call; each call
\* remembers the tables it started from
NextSeq ==
  \E p \in {"p1"} :
    \/ CallCreate(p, SeqDeposits, TRUE) \/ CreateSteps(p)
    \/ CallClose(p, TRUE) \/ CloseSteps(p)
    \/ CallGetBalance(p, TRUE) \/ get_balance(p)
    \/ CallDeposit(p, SeqAmounts, TRUE) \/ DepositSteps(p)
    \/ CallWithdraw(p, SeqAmounts, TRUE) \/ WithdrawSteps(p)
    \/ CallTransfer(p, SeqAmounts, TRUE) \/ TransferSteps(p)
    \/ Return(p)
SpecSeq == Init /\ [][NextSeq]_vars

\* one caller that also updates the details of accounts
NextUpd ==
  \E p \in {"p1"} :
    \/ CallCreate(p, Deposits, TRUE) \/ CreateSteps(p)
    \/ CallClose(p, TRUE) \/ CloseSteps(p)
    \/ CallDeposit(p, PosAmounts, TRUE) \/ DepositSteps(p)
    \/ CallWithdraw(p, PosAmounts, TRUE) \/ WithdrawSteps(p)
    \/ CallTransfer(p, PosAmounts, TRUE) \/ TransferSteps(p)
    \/ CallUpdate(p, TRUE) \/ UpdateSteps(p)
    \/ Return(p)
SpecUpd == Init /\ [][NextUpd]_vars

\* one caller that reads the history, while the clock runs
NextHist ==
  \/ \E p \in {"p1"} :
       \/ CallCreate(p, Deposits, TRUE) \/ CreateSteps(p)
       \/ CallDeposit(p, PosAmounts, TRUE) \/ DepositSteps(p)
       \/ CallWithdraw(p, PosAmounts, TRUE) \/ WithdrawSteps(p)
       \/ CallGetHistory(p, TRUE) \/ get_history(p)
       \/ Return(p)
  \/ Tick
SpecHist == Init /\ [][NextHist]_vars

\* concurrent transfers under fair scheduling: a thread that can take a step
\* eventually takes one.  A session that waits for the write lock can always
\* take a step: it gets the lock or its wait times out (Busy).
Run(p) ==
  \/ CreateSteps(p) \/ WithdrawSteps(p) \/ DepositSteps(p) \/ TransferSteps(p)
  \/ Busy(p)

NextLive ==
  \E p \in Procs :
    \/ CallCreate(p, Deposits, FALSE) \/ CreateSteps(p)
    \/ CallTransferLive(p, PosAmounts)
    \/ WithdrawSteps(p) \/ DepositSteps(p) \/ TransferSteps(p)
    \/ Busy(p) \/ Return(p)
SpecLive == Init /\ [][NextLive]_vars /\ \A p \in Procs : WF_vars(Run(p))

TypeOK ==
  /\ DOMAIN accounts \subseteq AccIds
  /\ \A a \in DOMAIN accounts : accounts[a].status \in {"active", "closed"}
  /\ lock \in {NoLock} \cup Procs

\* ------------------------------------------------------------------ claims
Done(p, name) == pc[p] = "done" /\ op[p] = name

\* the transactions rows of an account, in insertion order
RowsOf(txs, acc) == SelectSeq(txs, LAMBDA r : r.account_id = acc)

\* an account row (or its absence) is what it was when the call started
SameAccount(p, acc) ==
  /\ Exists(acc) <=> acc \in DOMAIN pre[p].accounts
  /\ Exists(acc) => accounts[acc] = pre[p].accounts[acc]

\* C1: a transfer of a positive amount that returns failure, with no other
\* operation running, leaves the balances of both accounts as they were
\* before the call and leaves no new transaction record for either account.
FailedTransferChangesNothing ==
  \A p \in Procs :
    (Done(p, "transfer") /\ args[p].amount > 0 /\ ret[p] = "False") =>
      \A acc \in {args[p].account_id, args[p].to_acc} :
        /\ SameAccount(p, acc)
        /\ RowsOf(transactions, acc) = RowsOf(pre[p].transactions, acc)

\* what a finished deposit or withdraw call claims to have added to the balance
Effect(p) ==
  IF ret[p] = "True"
  THEN IF op[p] = "deposit" THEN args[p].amount ELSE 0 - args[p].amount
  ELSE 0

RECURSIVE SumEffect(_)
SumEffect(S) ==
  IF S = {} THEN 0
  ELSE LET q == CHOOSE x \in S : TRUE IN Effect(q) + SumEffect(S \ {q})

\* every caller has finished a deposit or withdraw on acc, and all of them
\* started from the same tables: the calls ran concurrently
RacedOn(acc) ==
  /\ \A p \in Procs :
       /\ pc[p] = "done"
       /\ op[p] \in {"deposit", "withdraw"}
       /\ args[p].account_id = acc
       /\ \A q \in Procs : pre[q] = pre[p]
  /\ \E p \in Procs :
       /\ acc \in DOMAIN pre[p].accounts
       /\ pre[p].accounts[acc].status = "active"

\* C2: after deposits and withdrawals of positive amounts ran concurrently on
\* one active account, the balance is the balance they started from plus the
\* deposits that returned success minus the withdrawals that returned success.
NoLostUpdate ==
  \A acc \in DOMAIN accounts :
    RacedOn(acc) =>
      \A p \in Procs :
        accounts[acc].balance = pre[p].accounts[acc].balance + SumEffect(Procs)

BalanceNeverNegative == \A acc \in DOMAIN accounts : accounts[acc].balance >= 0

\* the step in which withdraw reads a balance smaller than its amount
OverdrawRefused ==
  \A p \in Procs :
    ( /\ pc[p] = "wd_select"
      /\ pc'[p] # "wd_select"
      /\ Exists(CurAcc(p))
      /\ accounts[CurAcc(p)].balance < args[p].amount )
    => /\ accounts' = accounts
       /\ transactions' = transactions
       /\ \/ pc'[p] = "done" /\ ret'[p] = "False"
          \/ pc'[p] = "tr_rollback"

\* C3: with positive amounts and non-negative initial deposits, under every
\* interleaving of concurrent calls, no balance is ever negative, and a
\* withdraw whose amount exceeds the balance fails and changes nothing.
NonNegativeBalances == [](BalanceNeverNegative) /\ [][OverdrawRefused]_vars

WitnessOverdrawRefused ==
  \E p \in Procs, q \in Procs :
    /\ Done(p, "withdraw") /\ ret[p] = "False"
    /\ Exists(args[p].account_id)
    /\ accounts[args[p].account_id].status = "active"
    /\ accounts[args[p].account_id].balance < args[p].amount
    /\ q # p /\ pc[q] \notin {"idle", "done"}

\* C4: a closed account has balance exactly 0, also when close runs
\* concurrently with deposit, withdraw or transfer on the same account.
ClosedHasZeroBalance ==
  \A acc \in DOMAIN accounts :
    accounts[acc].status = "closed" => accounts[acc].balance = 0

TransferSucceeded(p) == Done(p, "transfer") /\ ret[p] = "True"

\* balance of acc now / when the call of p started
Bal(acc) == accounts[acc].balance
PreBal(p, acc) == pre[p].accounts[acc].balance

Conserved(p) ==
  LET A == args[p].account_id
      B == args[p].to_acc
      amt == args[p].amount
  IN /\ Bal(A) = PreBal(p, A) - amt
     /\ Bal(B) = PreBal(p, B) + amt
     /\ Bal(A) + Bal(B) = PreBal(p, A) + PreBal(p, B)

\* C5 as stated: after a successful transfer(A, B, amt), for every pair A, B,
\* A is lower by amt, B is higher by amt and the sum is unchanged.
TransferConservesAnyPair ==
  \A p \in Procs : TransferSucceeded(p) => Conserved(p)

\* C5: after a successful transfer(A, B, amt) between two different accounts
\* (no other operation interleaved), A is lower by exactly amt, B is higher
\* by exactly amt and the sum of both balances is unchanged.
TransferConserves ==
  \A p \in Procs :
    (TransferSucceeded(p) /\ args[p].account_id # args[p].to_acc) => Conserved(p)

WitnessTransferConserves ==
  \E p \in Procs :
    /\ TransferSucceeded(p)
    /\ args[p].account_id # args[p].to_acc
    /\ args[p].amount > 0
    /\ Bal(args[p].account_id) > 0

TransferRows(kind) == SelectSeq(transactions, LAMBDA r : r.description[1] = kind)

\* C6: the debit of a transfer and its credit become visible in the same
\* step or not at all: at no time do the tables hold the debit leg of a
\* transfer without the credit leg that belongs to it.
TransferLegsVisibleTogether ==
  Len(TransferRows("Transfer to")) = Len(TransferRows("Transfer from"))

\* the transactions row of an account with the largest id
LastRow(acc) ==
  LET rows == RowsOf(transactions, acc)
      i == CHOOSE k \in 1..Len(rows) : \A j \in 1..Len(rows) : rows[j].id <= rows[k].id
  IN rows[i]

\* C7: in every reachable state, under any interleaving, the newest
\* transaction record of an account carries the account's current balance.
LedgerAccuracy ==
  \A acc \in DOMAIN accounts :
    RowsOf(transactions, acc) # <<>> => LastRow(acc).balance_after = accounts[acc].balance

\* two deposits raced on one account: both rows carry the same balance
WitnessLedgerAccuracyRace ==
  \E acc \in DOMAIN accounts :
    LET rows == RowsOf(transactions, acc)
    IN /\ Len(rows) >= 2
       /\ rows[Len(rows)].type = "credit"
       /\ rows[Len(rows) - 1].type = "credit"
       /\ rows[Len(rows)].balance_after = rows[Len(rows) - 1].balance_after
       /\ rows[Len(rows)].description = <<"Deposit">>

Unchanged(p) ==
  /\ accounts = pre[p].accounts
  /\ transactions = pre[p].transactions

\* C8: deposit, withdraw and transfer called with amount <= 0 return failure
\* and change neither a balance nor the ledger.
NonPositiveAmountRejected ==
  \A p \in Procs :
    ( /\ pc[p] = "done"
      /\ op[p] \in {"deposit", "withdraw", "transfer"}
      /\ args[p].amount <= 0 )
    => ret[p] = "False" /\ Unchanged(p)

PreActive(p) ==
  /\ args[p].account_id \in DOMAIN pre[p].accounts
  /\ pre[p].accounts[args[p].account_id].status = "active"

\* C9: with no concurrent operation, deposit fails exactly when the account
\* is absent or not active, withdraw fails exactly when the account is
\* absent, not active or holds less than the amount; a failing call changes
\* no account and appends no transaction record.
DepositWithdrawFailExactly ==
  \A p \in Procs :
    /\ Done(p, "deposit") =>
         /\ ret[p] \in {"True", "False"}
         /\ ret[p] = "False" <=> ~PreActive(p)
         /\ ret[p] = "False" => Unchanged(p)
    /\ Done(p, "withdraw") =>
         /\ ret[p] \in {"True", "False"}
         /\ ret[p] = "False" <=>
              (~PreActive(p) \/ PreBal(p, args[p].account_id) < args[p].amount)
         /\ ret[p] = "False" => Unchanged(p)

WitnessDepositWithdrawFail ==
  /\ Done("p1", "deposit") /\ ret["p1"] = "False"
  /\ args["p1"].account_id \in DOMAIN pre["p1"].accounts
  /\ pre["p1"].accounts[args["p1"].account_id].status = "closed"
  /\ \E r \in DOMAIN transactions : transactions[r].type = "debit"

\* C10: with no concurrent operation, close returns false and changes
\* nothing when the account is absent or its balance is not 0; otherwise it
\* returns true and only sets the status of that account to closed.
CloseContract ==
  \A p \in Procs :
    Done(p, "close_account") =>
      LET acc == args[p].account_id
      IN IF acc \notin DOMAIN pre[p].accounts \/ PreBal(p, acc) # 0
         THEN ret[p] = "False" /\ Unchanged(p)
         ELSE /\ ret[p] = "True"
              /\ accounts = [pre[p].accounts EXCEPT ![acc].status = "closed"]
              /\ transactions = pre[p].transactions

WitnessCloseRefused ==
  \E p \in Procs :
    /\ Done(p, "close_account") /\ ret[p] = "False"
    /\ args[p].account_id \in DOMAIN pre[p].accounts
    /\ PreBal(p, args[p].account_id) # 0
    /\ \E a \in DOMAIN accounts : accounts[a].status = "closed"

\* the tables are those of the start of the call, with the balance of acc set
\* to bal and one row of the given type, amount and balance appended for acc
OneRowAdded(p, acc, type, amt, bal) ==
  /\ accounts = [pre[p].accounts EXCEPT ![acc].balance = bal]
  /\ Len(transactions) = Len(pre[p].transactions) + 1
  /\ SubSeq(transactions, 1, Len(pre[p].transactions)) = pre[p].transactions
  /\ LET r == transactions[Len(transactions)]
     IN /\ r.account_id = acc
        /\ r.type = type
        /\ r.amount = amt
        /\ r.balance_after = bal

\* C12: a successful deposit raises the balance by exactly the amount and
\* appends exactly one credit row with that amount and the new balance, a
\* successful withdraw lowers it by exactly the amount and appends exactly one
\* debit row likewise; every other account, the other fields of the account
\* and every earlier row are unchanged.
DepositWithdrawEffect ==
  \A p \in Procs :
    /\ (Done(p, "deposit") /\ ret[p] = "True") =>
         OneRowAdded(p, args[p].account_id, "credit", args[p].amount,
                     PreBal(p, args[p].account_id) + args[p].amount)
    /\ (Done(p, "withdraw") /\ ret[p] = "True") =>
         OneRowAdded(p, args[p].account_id, "debit", args[p].amount,
                     PreBal(p, args[p].account_id) - args[p].amount)

WitnessWithdrawEffect ==
  \E p \in Procs :
    /\ Done(p, "withdraw") /\ ret[p] = "True"
    /\ args[p].amount > 0
    /\ Len(pre[p].transactions) >= 1
    /\ Cardinality(DOMAIN accounts) = 2

\* C13: open with initial_deposit >= 0 always succeeds: it creates one new
\* active account with balance initial_deposit under an identifier no existing
\* account has, leaves the existing accounts unchanged, and appends exactly
\* one "Initial deposit" credit row when initial_deposit > 0, none when it is 0.
OpenAlwaysSucceeds ==
  \A p \in Procs :
    Done(p, "create_account") =>
      LET id == args[p].account_id
          d == args[p].amount
          old == pre[p].transactions
      IN /\ ret[p] = id
         /\ id \notin DOMAIN pre[p].accounts
         /\ DOMAIN accounts = DOMAIN pre[p].accounts \cup {id}
         /\ \A a \in DOMAIN pre[p].accounts : accounts[a] = pre[p].accounts[a]
         /\ accounts[id].balance = d /\ accounts[id].status = "active"
         /\ IF d > 0
            THEN /\ Len(transactions) = Len(old) + 1
                 /\ SubSeq(transactions, 1, Len(old)) = old
                 /\ LET r == transactions[Len(transactions)]
                    IN /\ r.account_id = id /\ r.type = "credit"
                       /\ r.amount = d /\ r.balance_after = d
                       /\ r.description = <<"Initial deposit">>
            ELSE transactions = old

\* C16: get_balance returns 0 for an unknown account and the stored balance
\* otherwise, and changes no account and no transaction row; its value is
\* fixed by the account id and the tables, so two calls with no mutation
\* between them return the same value.
GetBalancePure ==
  \A p \in Procs :
    Done(p, "get_balance") =>
      /\ Unchanged(p)
      /\ ret[p] = IF Exists(args[p].account_id)
                  THEN accounts[args[p].account_id].balance ELSE 0

WitnessGetBalance ==
  \E p \in Procs :
    /\ Done(p, "get_balance")
    /\ Exists(args[p].account_id)
    /\ ret[p] > 0
    /\ \E a \in AccIds : ~Exists(a)

\* a step keeps every row it found and gives new rows larger ids
AppendOnlyStep ==
  /\ Len(transactions') >= Len(transactions)
  /\ \A i \in 1..Len(transactions) : transactions'[i] = transactions[i]
  /\ \A j \in (Len(transactions) + 1)..Len(transactions') :
       \A i \in 1..(j - 1) : transactions'[i].id < transactions'[j].id

\* the rows a finished call is to have appended
RowsDue(p) ==
  IF op[p] \in {"deposit", "withdraw"} /\ ret[p] = "True" THEN 1
  ELSE IF op[p] = "transfer" /\ ret[p] = "True" THEN 2
  ELSE IF op[p] = "create_account" /\ ret[p] # "Raise" /\ args[p].amount > 0 THEN 1
  ELSE 0

\* (calls with a positive amount, the domain spec 4.3 gives the operations)
RowsAsDue ==
  \A p \in Procs :
    (pc[p] = "done" /\ (args[p].amount > 0 \/ op[p] \notin {"deposit", "withdraw", "transfer"}))
      => Len(transactions) = Len(pre[p].transactions) + RowsDue(p)

\* C17: the ledger is append-only: every step keeps the rows it found, new
\* rows get ids above all earlier ones, and a call appends one row per
\* successful balance mutation (one per deposit, withdraw or funded open, two
\* per successful transfer) and none when it fails or only reads or closes.
LedgerAppendOnly == [](RowsAsDue) /\ [][AppendOnlyStep]_vars

\* credits minus debits of a sequence of rows
RECURSIVE Net(_)
Net(rows) ==
  IF rows = <<>> THEN 0
  ELSE (IF Head(rows).type = "credit" THEN Head(rows).amount ELSE 0 - Head(rows).amount)
       + Net(Tail(rows))

\* C18: in every reachable state, under any interleaving of concurrent open,
\* deposit, withdraw and transfer calls with positive amounts, the balance of
\* each account is the sum of its credit rows minus the sum of its debit rows.
BalanceTraceable ==
  \A acc \in DOMAIN accounts :
    accounts[acc].balance = Net(RowsOf(transactions, acc))

\* C20: a self-transfer transfer(A, A, amt) on an active account with
\* 0 < amt <= balance succeeds, leaves the balance as it was and appends
\* exactly two rows for A, a debit with balance_after = balance - amt and then
\* a credit with balance_after = balance; with amt > balance it fails and
\* changes nothing.
SelfTransfer ==
  \A p \in Procs :
    ( /\ Done(p, "transfer")
      /\ args[p].account_id = args[p].to_acc
      /\ PreActive(p)
      /\ args[p].amount > 0 )
    => LET A == args[p].account_id
           amt == args[p].amount
           old == pre[p].transactions
       IN IF amt <= PreBal(p, A)
          THEN /\ ret[p] = "True"
               /\ accounts = pre[p].accounts
               /\ Len(transactions) = Len(old) + 2
               /\ SubSeq(transactions, 1, Len(old)) = old
               /\ LET d == transactions[Len(old) + 1]
                      c == transactions[Len(old) + 2]
                  IN /\ d.account_id = A /\ d.type = "debit" /\ d.amount = amt
                     /\ d.balance_after = PreBal(p, A) - amt
                     /\ c.account_id = A /\ c.type = "credit" /\ c.amount = amt
                     /\ c.balance_after = PreBal(p, A)
          ELSE ret[p] = "False" /\ Unchanged(p)

WitnessSelfTransfer ==
  \E p \in Procs :
    /\ Done(p, "transfer") /\ ret[p] = "True"
    /\ args[p].account_id = args[p].to_acc
    /\ args[p].amount > 0
    /\ args[p].amount < PreBal(p, args[p].account_id)

ClosedFrozenStep ==
  \A a \in DOMAIN accounts :
    /\ a \in DOMAIN accounts'
    /\ accounts[a].status = "closed" => accounts'[a] = accounts[a]

WasClosed(p, acc) ==
  acc \in DOMAIN pre[p].accounts /\ pre[p].accounts[acc].status = "closed"

\* a call on an account that was closed when the call started returned failure
ClosedRefuses ==
  \A p \in Procs :
    /\ (/\ pc[p] = "done"
        /\ op[p] \in {"deposit", "withdraw", "update_account_details"}
        /\ WasClosed(p, args[p].account_id)) => ret[p] = "False"
    /\ (/\ Done(p, "transfer")
        /\ WasClosed(p, args[p].account_id) \/ WasClosed(p, args[p].to_acc))
         => ret[p] = "False"

\* C11: closed is terminal and freezes the record: once an account is closed,
\* in every later state it is still closed and its balance, holder_name and
\* account_type are unchanged, every later deposit, withdraw, transfer or
\* update_account_details on it returns failure, and no account record is
\* ever deleted.
ClosedIsTerminal == [](ClosedRefuses) /\ [][ClosedFrozenStep]_vars

\* the claim's "provided": an argument that is not None
Provided(x) == x # None

\* C14: update_account_details changes only the fields that were provided
\* (a provided non-empty value is what the field holds afterwards) and never
\* changes balance, status, any other account or the ledger; a call with
\* neither field provided returns True and changes nothing; the call returns
\* False only if the account does not exist.
UpdateDetailsFrame ==
  \A p \in Procs :
    Done(p, "update_account_details") =>
      LET acc == args[p].account_id
          h == args[p].holder_name
          t == args[p].account_type
          old == pre[p].accounts
      IN /\ transactions = pre[p].transactions
         /\ DOMAIN accounts = DOMAIN old
         /\ \A a \in DOMAIN accounts :
              /\ accounts[a].balance = old[a].balance
              /\ accounts[a].status = old[a].status
              /\ a # acc => accounts[a] = old[a]
              /\ accounts[a].holder_name # old[a].holder_name =>
                   Provided(h) /\ accounts[a].holder_name = h
              /\ accounts[a].account_type # old[a].account_type =>
                   Provided(t) /\ accounts[a].account_type = t
         /\ (acc \in DOMAIN old /\ Truthy(h)) => accounts[acc].holder_name = h
         /\ (acc \in DOMAIN old /\ Truthy(t)) => accounts[acc].account_type = t
         /\ (~Provided(h) /\ ~Provided(t)) => (ret[p] = "True" /\ accounts = old)
         /\ ret[p] \in {"True", "False"}
         /\ ret[p] = "False" => acc \notin DOMAIN old

\* the name alone was given and the account now carries it, its type is as before
WitnessUpdateNameOnly ==
  \E p \in Procs :
    /\ Done(p, "update_account_details")
    /\ ret[p] = "True"
    /\ Truthy(args[p].holder_name) /\ ~Provided(args[p].account_type)
    /\ Exists(args[p].account_id)
    /\ accounts[args[p].account_id].holder_name = "bob"
    /\ pre[p].accounts[args[p].account_id].holder_name = "alice"
    /\ accounts[args[p].account_id].account_type = "savings"

\* how many times d is in the sequence
Count(seq, d) == Cardinality({k \in DOMAIN seq : seq[k] = d})

\* C15: get_history(acc, start_date, end_date) returns exactly the transaction
\* records of acc (none when acc is unknown), restricted to those whose date
\* lies in [start_date, end_date] when both are given and unrestricted when
\* either is omitted, in an order in which timestamps never increase.
HistoryContract ==
  \A p \in Procs :
    Done(p, "get_history") =>
      LET res == ret[p]
          txs == pre[p].transactions
          acc == args[p].account_id
          s == args[p].start_date
          e == args[p].end_date
          both == s # <<>> /\ e # <<>>
          want == {i \in DOMAIN txs :
                     /\ txs[i].account_id = acc
                     /\ both => Date(txs[i].timestamp) \in s[1]..e[1]}
          wanted == [i \in want |-> Dict(txs[i])]
      IN /\ Len(res) = Cardinality(want)
         /\ \A i \in want : Count(res, wanted[i]) = Cardinality({j \in want : wanted[j] = wanted[i]})
         /\ \A k \in DOMAIN res : \E i \in want : res[k] = wanted[i]
         /\ \A k \in 1..(Len(res) - 1) : res[k].timestamp >= res[k + 1].timestamp
         /\ acc \notin DOMAIN pre[p].accounts => res = <<>>

\* a range was given, it left out a record of the account, and the two records
\* returned carry different timestamps
WitnessHistoryRange ==
  \E p \in Procs :
    /\ Done(p, "get_history")
    /\ args[p].start_date # <<>> /\ args[p].end_date # <<>>
    /\ Len(RowsOf(transactions, args[p].account_id)) = 3
    /\ Len(ret[p]) = 2
    /\ ret[p][1].timestamp > ret[p][2].timestamp

====
